---- MODULE Spec2Model ----
(***************************************************************************)
(* Model of the playlist acquisition pipeline of                           *)
(* src/download/downloader.py: the acquisition engine                      *)
(* (download_playlist_audio), the run() driver and the playlist registry   *)
(* (parse_playlist_line / load_playlist_configs / save_playlist_configs).  *)
(*                                                                         *)
(* Conventions.  A Python str is a TLA+ string; None and "" are both       *)
(* written "" where the code only tests truthiness (`x or y`, `if not x`). *)
(* A file name is the sequence of its dot-separated components, so         *)
(* <<"a","webm","part">> is a.webm.part.  A dict is a function whose       *)
(* DOMAIN is the set of keys; link_map, whose iteration order the code     *)
(* relies on, is a sequence of [id, url] records with distinct ids.        *)
(***************************************************************************)
EXTENDS Integers, Sequences, FiniteSets, TLC

VARIABLES
    \* ---- download_playlist_audio (one playlist) ----
    pc,              \* position in download_playlist_audio
    has_entries,     \* bool(entries), once the falsy entries are dropped
    link_map,        \* Dict[str, str], in insertion order
    successful_ids,  \* set[str]
    failed_details,  \* Dict[str, {"url", "reason"}]
    temp_dir,        \* directory entries of temp_webm/
    temp_exists,     \* whether temp_webm/ exists
    candidates,      \* part of list(temp_dir.glob("*")) not yet visited
    conv_caller,     \* which call of convert_all_temp_files is running
    attempt,         \* bulk attempt counter
    pending_ids,     \* part of pending_ids the retry loop has not visited
    audio_files,     \* ids with audio/<id>.wav
    link_files,      \* vidLinks/<id>.txt: id -> content
    failed_report,   \* failed_downloads.txt: "absent", "stale" or its lines
    \* ---- observations of the collaborators' calls ----
    sleeps,          \* arguments of time.sleep, in call order
    bulk_left,       \* temp_dir when the bulk loop was left
    retry_calls,     \* [id, url, result] of each per-item ydl.download
    ffmpeg_calls,    \* [name, ok] of each convert_to_wav call
    bulk_result,     \* how the latest bulk ydl.download ended
    succ_first_pass, \* successful_ids when the first conversion pass ended
    \* ---- run() ----
    run_pc,           \* position in run()
    ffmpeg_override,  \* the argument of run(), "" for None
    fs_files,         \* the candidate paths that are regular files
    ffmpeg_path,      \* the local of run(), "" before it is assigned
    playlists_exists, \* whether the playlists file exists
    playlist_file,    \* the PlaylistFile of run(), its configs mutated
    options,          \* List[PlaylistOption]
    updated,
    selections,
    sel_idx,          \* position of the loop over selections
    run_events,       \* the calls run() made, in order
    \* ---- the playlists file and the registry round trip ----
    file_lines,       \* the lines of the playlists file
    reg_pc,
    first_load,
    second_load,
    \* ---- sanitize_name(name) ----
    san_pc,
    san_name,         \* the argument
    san_result,       \* the value returned
    \* ---- prompt_for_playlist_selection(playlists) ----
    prompt_pc,
    playlists,        \* the argument
    choice,           \* the latest line read by input()
    selected,         \* the local list; at the return, the value returned
    \* ---- record_failure / failed_details.pop on a given ledger ----
    led_pc,
    led_fd,           \* failed_details before the call
    led_lm,           \* link_map
    led_call,         \* the arguments of the call
    led_out,          \* failed_details after the call
    \* ---- main.menu() ----
    menu_pc,
    menu_round,       \* how often the menu was shown
    menu_log          \* what the loop called and printed, in order

engineVars == <<pc, has_entries, link_map, successful_ids, failed_details,
                temp_dir, temp_exists, candidates, conv_caller, attempt,
                pending_ids, audio_files, link_files, failed_report,
                sleeps, bulk_left, retry_calls, ffmpeg_calls, bulk_result,
                succ_first_pass>>

runVars == <<run_pc, ffmpeg_override, fs_files, ffmpeg_path, playlists_exists,
             playlist_file, options, updated, selections, sel_idx,
             run_events>>

regVars == <<file_lines, reg_pc, first_load, second_load>>

sanVars == <<san_pc, san_name, san_result>>

promptVars == <<prompt_pc, playlists, choice, selected>>

ledVars == <<led_pc, led_fd, led_lm, led_call, led_out>>

menuVars == <<menu_pc, menu_round, menu_log>>

fnVars == <<sanVars, promptVars, ledVars, menuVars>>

vars == <<engineVars, runVars, regVars, fnVars>>

----------------------------------------------------------------------------
(* Bounds of the model *)

\* longest metadata["entries"] list the resolver returns
MaxEntries == 2

\* most directory entries one ydl.download call leaves in temp_webm/
MaxDrop == 1

----------------------------------------------------------------------------
(* Generic helpers *)

Range(s) == {s[i] : i \in 1..Len(s)}

SeqsUpTo(S, n) == UNION {[1..k -> S] : k \in 0..n}

Min(x, y) == IF x <= y THEN x ELSE y

\* d with d[k] = v (dict assignment)
DictPut(d, k, v) == [x \in (DOMAIN d) \cup {k} |-> IF x = k THEN v ELSE d[x]]

\* d.pop(k, None)
DictPop(d, k) == [x \in (DOMAIN d) \ {k} |-> d[x]]

EmptyDict == [x \in {} |-> ""]

RECURSIVE Join(_, _)
\* sep.join(parts)
Join(parts, sep) ==
    IF Len(parts) = 0 THEN ""
    ELSE IF Len(parts) = 1 THEN parts[1]
    ELSE parts[1] \o sep \o Join(Tail(parts), sep)

----------------------------------------------------------------------------
(* The collaborators' data: what the resolver and yt-dlp can hand back *)

\* an entry of metadata["entries"]; nil marks a None entry
Entry(i, w, u) == [nil |-> FALSE, id |-> i, webpage_url |-> w, url |-> u]

NoneEntry == [nil |-> TRUE, id |-> "", webpage_url |-> "", url |-> ""]

EntryPool ==
    { Entry("a", "u1", ""),      \* webpage_url present
      Entry("b", "", "u2"),      \* only url present
      Entry("b", "", ""),        \* id without any url
      Entry("", "u1", ""),       \* url without id
      NoneEntry }

File(n) == [name |-> n, is_dir |-> FALSE]

Dir(n) == [name |-> n, is_dir |-> TRUE]

\* what "outtmpl": temp_dir / "%(id)s.%(ext)s" can put into temp_webm/:
\* finished media, yt-dlp's .part files, media of a video that is not in
\* link_map, and a sub-directory
TempUniverse ==
    { File(<<"a", "webm">>), File(<<"a", "m4a">>),
      File(<<"a", "webm", "part">>),
      File(<<"b", "webm">>), File(<<"b", "webm", "part">>),
      File(<<"c", "webm">>),
      Dir(<<"d">>) }

\* the sets of entries one ydl.download call can leave behind
Drops == {S \in SUBSET TempUniverse : Cardinality(S) <= MaxDrop}

\* the entries a per-item ydl.download of video_id can leave behind: the
\* output template names them after the id
ItemDrops(video_id) ==
    {S \in Drops :
        \A f \in S : ~f.is_dir /\ f.name[1] = video_id}

\* str(exc) of an exception raised by ydl.download
DownloadErrors == {"network error"}

\* every video id, in the order sorted() gives them
IdsSorted == <<"a", "b", "c">>

----------------------------------------------------------------------------
(* pathlib: Path.name, Path.suffix, Path.stem on a name given by its       *)
(* dot-separated components                                                *)

PathName(n) == Join(n, ".")

\* PurePath.suffix: the part from the last dot on, unless that dot is the
\* first or the last character of the name
PathSuffix(n) ==
    IF Len(n) >= 2 /\ n[Len(n)] # "" /\ ~(Len(n) = 2 /\ n[1] = "")
    THEN "." \o n[Len(n)]
    ELSE ""

\* PurePath.stem: the name without its suffix
PathStem(n) ==
    IF PathSuffix(n) = "" THEN PathName(n)
    ELSE Join(SubSeq(n, 1, Len(n) - 1), ".")

\* source_file.name.split(".")[0]
FirstComponent(n) == n[1]

----------------------------------------------------------------------------
(* link_map *)

LinkIds(lm) == {lm[i].id : i \in 1..Len(lm)}

\* link_map.get(video_id, "")
LinkGet(lm, video_id) ==
    IF video_id \in LinkIds(lm)
    THEN (CHOOSE e \in Range(lm) : e.id = video_id).url
    ELSE ""

\* link_map[video_id] = webpage_url on an insertion-ordered dict
LinkPut(lm, video_id, webpage_url) ==
    IF video_id \in LinkIds(lm)
    THEN [i \in 1..Len(lm) |->
            IF lm[i].id = video_id THEN [id |-> video_id, url |-> webpage_url]
            ELSE lm[i]]
    ELSE Append(lm, [id |-> video_id, url |-> webpage_url])

RECURSIVE BuildLinkMap(_, _)
\* lines 290-295: the loop over entries
BuildLinkMap(entries, lm) ==
    IF Len(entries) = 0 THEN lm
    ELSE LET entry == Head(entries)
             video_id == entry.id
             webpage_url == IF entry.webpage_url # "" THEN entry.webpage_url
                            ELSE entry.url
         IN  BuildLinkMap(Tail(entries),
                          IF video_id # "" /\ webpage_url # ""
                          THEN LinkPut(lm, video_id, webpage_url)
                          ELSE lm)

\* [entry for entry in raw_entries if entry]
TruthyEntries(raw_entries) == SelectSeq(raw_entries, LAMBDA e : ~e.nil)

\* [video_id for video_id in link_map if video_id not in successful_ids]
NotSuccessful(lm, succ) ==
    LET kept == SelectSeq(lm, LAMBDA e : e.id \notin succ)
    IN  [i \in 1..Len(kept) |-> kept[i].id]

----------------------------------------------------------------------------
(* Failure ledger *)

ReasonPartial == "partial download detected (yt-dlp interruption)"

ReasonConversion(source_name) ==
    "conversion failed: ffmpeg conversion failed for " \o source_name

ReasonRetry(exc) == "individual retry failed: " \o exc

ReasonMissingUrl == "missing URL in metadata"

ReasonNoAudio == "no audio file produced after retries"

\* record_failure with link_map asked before the url already stored
record_failure_link_map_first(fd, lm, video_id, reason, url) ==
    IF video_id = "" THEN fd
    ELSE LET existing_url == IF video_id \in DOMAIN fd THEN fd[video_id].url
                             ELSE ""
             resolved_url == IF url # "" THEN url
                             ELSE IF LinkGet(lm, video_id) # ""
                             THEN LinkGet(lm, video_id)
                             ELSE existing_url
         IN  DictPut(fd, video_id, [url |-> resolved_url, reason |-> reason])

\* record_failure(video_id, reason, url) applied to the ledger fd
record_failure(fd, lm, video_id, reason, url) ==
    IF video_id = "" THEN fd
    ELSE LET existing_url == IF video_id \in DOMAIN fd THEN fd[video_id].url
                             ELSE ""
             resolved_url == IF url # "" THEN url
                             ELSE IF existing_url # "" THEN existing_url
                             ELSE LinkGet(lm, video_id)
         IN  DictPut(fd, video_id, [url |-> resolved_url, reason |-> reason])

----------------------------------------------------------------------------
(* download_playlist_audio: the conversion pass *)

\* The locals convert_source_file reads and writes, as one record.
Locals == [successful_ids |-> successful_ids,
           failed_details |-> failed_details,
           temp_dir       |-> temp_dir,
           audio_files    |-> audio_files,
           link_files     |-> link_files,
           ffmpeg_calls   |-> ffmpeg_calls]

\* lines 310-315: the branch for a .part file
convert_partial(source_file, st) ==
    LET video_id == FirstComponent(source_file.name)
    IN  [st EXCEPT
           !.failed_details =
               record_failure(st.failed_details, link_map, video_id,
                              ReasonPartial, ""),
           !.temp_dir = st.temp_dir \ {source_file}]

\* lines 317-327 without the finally clause when convert_to_wav raised
convert_media_keeps_failed(source_file, ok, st) ==
    LET video_id == PathStem(source_file.name)
        link == LinkGet(link_map, video_id)
        called == st.ffmpeg_calls \cup
                      {[name |-> source_file.name, ok |-> ok]}
    IN  IF ok
        THEN [st EXCEPT
                !.successful_ids = st.successful_ids \cup {video_id},
                !.failed_details = DictPop(st.failed_details, video_id),
                !.audio_files = st.audio_files \cup {video_id},
                !.link_files = IF link # ""
                               THEN DictPut(st.link_files, video_id, link)
                               ELSE st.link_files,
                !.ffmpeg_calls = called,
                !.temp_dir = st.temp_dir \ {source_file}]
        ELSE [st EXCEPT
                !.failed_details =
                    record_failure(st.failed_details, link_map, video_id,
                        ReasonConversion(PathName(source_file.name)), ""),
                !.ffmpeg_calls = called]

\* lines 317-329: convert_to_wav returned (ok) or raised (~ok)
convert_media(source_file, ok, st) ==
    LET video_id == PathStem(source_file.name)
        link == LinkGet(link_map, video_id)
        called == st.ffmpeg_calls \cup
                      {[name |-> source_file.name, ok |-> ok]}
    IN  IF ok
        THEN [st EXCEPT
                !.successful_ids = st.successful_ids \cup {video_id},
                !.failed_details = DictPop(st.failed_details, video_id),
                !.audio_files = st.audio_files \cup {video_id},
                !.link_files = IF link # ""
                               THEN DictPut(st.link_files, video_id, link)
                               ELSE st.link_files,
                !.ffmpeg_calls = called,
                !.temp_dir = st.temp_dir \ {source_file}]
        ELSE [st EXCEPT
                !.failed_details =
                    record_failure(st.failed_details, link_map, video_id,
                        ReasonConversion(PathName(source_file.name)), ""),
                !.ffmpeg_calls = called,
                !.temp_dir = st.temp_dir \ {source_file}]

\* mutant of convert_source_file: the .part test is left out
convert_source_file_no_part(source_file, ok, st) ==
    IF source_file.is_dir THEN st
    ELSE convert_media(source_file, ok, st)

\* convert_source_file(source_file); ok is the transcoder's outcome, read
\* only when the transcoder is invoked
convert_source_file(source_file, ok, st) ==
    IF source_file.is_dir THEN st
    ELSE IF PathSuffix(source_file.name) = ".part"
    THEN convert_partial(source_file, st)
    ELSE convert_media(source_file, ok, st)

\* whether convert_source_file(source_file) reaches convert_to_wav
InvokesTranscoder(source_file) ==
    ~source_file.is_dir /\ PathSuffix(source_file.name) # ".part"

SetLocals(st) ==
    /\ successful_ids' = st.successful_ids
    /\ failed_details' = st.failed_details
    /\ temp_dir' = st.temp_dir
    /\ audio_files' = st.audio_files
    /\ link_files' = st.link_files
    /\ ffmpeg_calls' = st.ffmpeg_calls

\* min(10, 2 * attempt), lines 369 and 381
BackoffWait(k) == Min(10, 2 * k)

\* the attempt at which the bulk loop gives up, lines 367 and 377
MaxAttempts == 3

----------------------------------------------------------------------------
(* download_playlist_audio: finalisation helpers *)

RECURSIVE RecordRemaining_overwrite(_, _, _)
\* mutant of RecordRemaining: the test `video_id not in failed_details`
\* is left out
RecordRemaining_overwrite(remaining_ids, fd, lm) ==
    IF Len(remaining_ids) = 0 THEN fd
    ELSE RecordRemaining_overwrite(Tail(remaining_ids),
             record_failure(fd, lm, Head(remaining_ids), ReasonNoAudio, ""),
             lm)

RECURSIVE RecordRemaining(_, _, _)
\* lines 414-417: the loop over remaining_ids
RecordRemaining(remaining_ids, fd, lm) ==
    IF Len(remaining_ids) = 0 THEN fd
    ELSE LET video_id == Head(remaining_ids)
         IN  RecordRemaining(Tail(remaining_ids),
                 IF video_id \notin DOMAIN fd
                 THEN record_failure(fd, lm, video_id, ReasonNoAudio, "")
                 ELSE fd,
                 lm)

\* line 431: one report line
ReportLine(video_id, detail) ==
    video_id \o " | " \o detail.url \o " | " \o detail.reason

\* lines 430-431: the lines for sorted(failed_details.items())
ReportLines(fd) ==
    LET ids == SelectSeq(IdsSorted, LAMBDA i : i \in DOMAIN fd)
    IN  [k \in 1..Len(ids) |-> ReportLine(ids[k], fd[ids[k]])]

NoReport == [exists |-> FALSE, lines |-> <<>>]

\* a report left by an earlier run
StaleReport == [exists |-> TRUE, lines |-> <<"z | u9 | stale">>]

\* lines 422-437 without the elif of lines 438-439
WriteReport_keeps_stale(fd, report) ==
    IF DOMAIN fd # {} THEN [exists |-> TRUE, lines |-> ReportLines(fd)]
    ELSE report

\* lines 422-439: what becomes of failed_downloads.txt
WriteReport(fd, report) ==
    IF DOMAIN fd # {} THEN [exists |-> TRUE, lines |-> ReportLines(fd)]
    ELSE IF report.exists THEN NoReport
    ELSE report

----------------------------------------------------------------------------
(* Playlist registry.  Here a str is the sequence of its characters, so    *)
(* that strip, split and the f-string of save are computed; None is <<>>   *)
(* where the code tests truthiness only.  A file is the sequence of the    *)
(* lines read_text().splitlines() gives; no character of the alphabet is   *)
(* a line boundary.                                                        *)

\* longest line of a playlists file
MaxLineLen == 3

\* most lines of a playlists file
MaxLines == 2

Chars == {"a", "|", " ", "#"}

Lines == SeqsUpTo(Chars, MaxLineLen)

RECURSIVE LStrip(_)
\* str.lstrip()
LStrip(t) == IF Len(t) > 0 /\ Head(t) = " " THEN LStrip(Tail(t)) ELSE t

RECURSIVE RStrip(_)
\* str.rstrip()
RStrip(t) ==
    IF Len(t) > 0 /\ t[Len(t)] = " " THEN RStrip(SubSeq(t, 1, Len(t) - 1))
    ELSE t

\* str.strip()
Strip(t) == LStrip(RStrip(t))

\* index of the first "|" of a line that has one
FirstBar(line) == CHOOSE i \in 1..Len(line) :
                     line[i] = "|" /\ \A j \in 1..(i - 1) : line[j] # "|"

\* parse_playlist_line(line): a config, or ok = FALSE for the ValueError
parse_playlist_line(line) ==
    LET has_bar == \E i \in 1..Len(line) : line[i] = "|"
        name == IF has_bar THEN Strip(SubSeq(line, 1, FirstBar(line) - 1))
                ELSE <<>>
        url == IF has_bar
               THEN Strip(SubSeq(line, FirstBar(line) + 1, Len(line)))
               ELSE Strip(line)
    IN  [ok |-> url # <<>>, url |-> url, name |-> name]

PlaylistConfig(url, name) == [url |-> url, name |-> name]

LoadError == [ok |-> FALSE, comments |-> <<>>, configs |-> <<>>]

RECURSIVE LoadLines(_, _, _)
\* lines 118-126: the loop over the lines of the file
LoadLines(raw_lines, comments, confs) ==
    IF Len(raw_lines) = 0
    THEN [ok |-> TRUE, comments |-> comments, configs |-> confs]
    ELSE LET raw_line == Head(raw_lines)
             stripped == Strip(raw_line)
         IN  IF stripped = <<>>
             THEN LoadLines(Tail(raw_lines), Append(comments, <<>>), confs)
             ELSE IF Head(stripped) = "#"
             THEN LoadLines(Tail(raw_lines),
                            Append(comments, RStrip(raw_line)), confs)
             ELSE LET parsed == parse_playlist_line(stripped)
                  IN  IF ~parsed.ok THEN LoadError
                      ELSE LoadLines(Tail(raw_lines), comments,
                               Append(confs,
                                   PlaylistConfig(parsed.url, parsed.name)))

\* load_playlist_configs on a file that exists with these lines: the
\* PlaylistFile, or ok = FALSE for the ValueError
load_playlist_configs(raw_lines) ==
    LET loaded == LoadLines(raw_lines, <<>>, <<>>)
    IN  IF loaded.ok /\ loaded.configs = <<>> THEN LoadError ELSE loaded

\* lines 146-149: the line written for one config
ConfigLine(config) ==
    IF config.name # <<>> THEN config.name \o <<"|">> \o config.url
    ELSE config.url

\* save_playlist_configs: the lines of the file it writes
save_playlist_configs(data) ==
    LET lines == IF data.comments # <<>>
                    /\ data.comments[Len(data.comments)] # <<>>
                 THEN Append(data.comments, <<>>)
                 ELSE data.comments
    IN  lines \o [i \in 1..Len(data.configs) |-> ConfigLine(data.configs[i])]

----------------------------------------------------------------------------
(* download_playlist_audio: the state machine *)

EngineInit ==
    /\ pc = "resolving"
    /\ has_entries = FALSE
    /\ link_map = <<>>
    /\ successful_ids = {}
    /\ failed_details = EmptyDict
    /\ temp_dir = {}
    /\ temp_exists = FALSE
    /\ candidates = {}
    /\ conv_caller = "none"
    /\ attempt = 0
    /\ pending_ids = <<>>
    /\ audio_files = {}
    /\ link_files = EmptyDict
    /\ failed_report \in {NoReport, StaleReport}
    /\ sleeps = <<>>
    /\ bulk_left = {}
    /\ retry_calls = <<>>
    /\ ffmpeg_calls = {}
    /\ bulk_result = "none"
    /\ succ_first_pass = {}

\* line 272: extract_playlist_metadata raises
ResolveFails ==
    /\ pc = "resolving"
    /\ pc' = "raised_metadata"
    /\ UNCHANGED <<has_entries, link_map, successful_ids, failed_details,
                   temp_dir, temp_exists, candidates, conv_caller, attempt,
                   pending_ids, audio_files, link_files, failed_report,
                   sleeps, bulk_left, retry_calls, ffmpeg_calls>>
    /\ UNCHANGED <<bulk_result, succ_first_pass>>
    /\ UNCHANGED <<runVars, regVars, fnVars>>

\* lines 285-298 without the return of line 287
AfterEntries_no_return(entries) == "bulk"

\* where line 285-298 lead: return on no entries, else the bulk loop
AfterEntries(entries) == IF Len(entries) = 0 THEN "done" ELSE "bulk"

\* lines 272-298: metadata resolved, directories made, link_map built
Resolve ==
    /\ pc = "resolving"
    /\ \E raw_entries \in SeqsUpTo(EntryPool, MaxEntries) :
         LET entries == TruthyEntries(raw_entries)
         IN  /\ has_entries' = (Len(entries) > 0)
             /\ temp_exists' = TRUE
             /\ pc' = AfterEntries(entries)
             /\ link_map' = IF Len(entries) = 0 THEN <<>>
                            ELSE BuildLinkMap(entries, <<>>)
    /\ UNCHANGED <<successful_ids, failed_details, temp_dir, candidates,
                   conv_caller, attempt, pending_ids, audio_files,
                   link_files, failed_report, sleeps, bulk_left,
                   retry_calls, ffmpeg_calls>>
    /\ UNCHANGED <<bulk_result, succ_first_pass>>
    /\ UNCHANGED <<runVars, regVars, fnVars>>

\* lines 366-372: what the loop does when ydl.download raised at attempt k
AfterBulkRaise(k) == IF k >= MaxAttempts THEN "raised_bulk" ELSE "sleep"

\* the loop of lines 374-383 without the test of line 374
AfterBulkReturn_ignores_code(k, return_code) ==
    IF k >= MaxAttempts THEN "break" ELSE "sleep"

\* lines 374-383: what the loop does when ydl.download returned at attempt k
AfterBulkReturn(k, return_code) ==
    IF return_code = 0 THEN "break"
    ELSE IF k >= MaxAttempts THEN "break"
    ELSE "sleep"

\* lines 361-385: one iteration of the bulk loop; on leaving the loop
\* convert_all_temp_files takes its snapshot of temp_webm/
BulkAttempt ==
    /\ pc = "bulk"
    /\ \E raised \in BOOLEAN, return_code \in {0, 1}, drop \in Drops :
         LET k == attempt + 1
             next == IF raised THEN AfterBulkRaise(k)
                     ELSE AfterBulkReturn(k, return_code)
         IN  /\ raised => return_code = 0
             /\ attempt' = k
             /\ bulk_result' = IF raised THEN "raised"
                                ELSE IF return_code = 0 THEN "zero"
                                ELSE "nonzero"
             /\ temp_dir' = temp_dir \cup drop
             /\ sleeps' = IF next = "sleep"
                          THEN Append(sleeps, BackoffWait(k)) ELSE sleeps
             /\ pc' = CASE next = "sleep" -> "bulk"
                        [] next = "break" -> "converting"
                        [] OTHER -> "raised_bulk"
             /\ candidates' = IF next = "break" THEN temp_dir' ELSE {}
             /\ conv_caller' = IF next = "break" THEN "bulk" ELSE conv_caller
             /\ bulk_left' = IF next = "break" THEN temp_dir' ELSE bulk_left
    /\ UNCHANGED <<has_entries, link_map, successful_ids, failed_details,
                   temp_exists, pending_ids, audio_files, link_files,
                   failed_report, retry_calls, ffmpeg_calls>>
    /\ UNCHANGED succ_first_pass
    /\ UNCHANGED <<runVars, regVars, fnVars>>

\* lines 332-333: one iteration of convert_all_temp_files; the order of
\* glob("*") is the file system's
ConvertStep ==
    /\ pc = "converting"
    /\ \E source_file \in candidates, ok \in BOOLEAN :
         /\ ~InvokesTranscoder(source_file) => ok
         /\ SetLocals(convert_source_file(source_file, ok, Locals))
         /\ candidates' = candidates \ {source_file}
    /\ UNCHANGED <<pc, has_entries, link_map, temp_exists, conv_caller,
                   attempt, pending_ids, failed_report, sleeps, bulk_left,
                   retry_calls>>
    /\ UNCHANGED <<bulk_result, succ_first_pass>>
    /\ UNCHANGED <<runVars, regVars, fnVars>>

\* where the retry loop stands with `rest` ids left to visit
RetryOrFinalize(rest) == IF Len(rest) = 0 THEN "finalizing" ELSE "retry"

\* lines 385-398: the first pass is over; pending_ids is computed
AfterFirstPass ==
    /\ pc = "converting"
    /\ candidates = {}
    /\ conv_caller = "bulk"
    /\ succ_first_pass' = successful_ids
    /\ pending_ids' = NotSuccessful(link_map, successful_ids)
    /\ pc' = RetryOrFinalize(pending_ids')
    /\ UNCHANGED <<has_entries, link_map, successful_ids, failed_details,
                   temp_dir, temp_exists, candidates, conv_caller, attempt,
                   audio_files, link_files, failed_report, sleeps,
                   bulk_left, retry_calls, ffmpeg_calls>>
    /\ UNCHANGED bulk_result
    /\ UNCHANGED <<runVars, regVars, fnVars>>

\* line 408 returned: on to the next pending id
AfterRetryPass ==
    /\ pc = "converting"
    /\ candidates = {}
    /\ conv_caller = "retry"
    /\ pc' = RetryOrFinalize(pending_ids)
    /\ UNCHANGED <<has_entries, link_map, successful_ids, failed_details,
                   temp_dir, temp_exists, candidates, conv_caller, attempt,
                   pending_ids, audio_files, link_files, failed_report,
                   sleeps, bulk_left, retry_calls, ffmpeg_calls>>
    /\ UNCHANGED <<bulk_result, succ_first_pass>>
    /\ UNCHANGED <<runVars, regVars, fnVars>>

\* the per-item call made with ydl_opts as they are for the bulk call
RetryCall_bulk_opts(video_id, url, raised) ==
    [video_id |-> video_id, url |-> url, ignoreerrors |-> TRUE,
     noplaylist |-> FALSE, raised |-> raised]

\* the options of the per-item call, lines 393-396
RetryCall(video_id, url, raised) ==
    [video_id |-> video_id, url |-> url, ignoreerrors |-> FALSE,
     noplaylist |-> TRUE, raised |-> raised]

\* lines 398-412: one iteration of the retry loop up to the call of
\* convert_all_temp_files (which takes its snapshot) or to the handler
RetryItem ==
    /\ pc = "retry"
    /\ LET video_id == Head(pending_ids)
           url == LinkGet(link_map, video_id)
       IN  IF url = ""
           THEN /\ failed_details' = record_failure(failed_details, link_map,
                                         video_id, ReasonMissingUrl, "")
                /\ pc' = RetryOrFinalize(Tail(pending_ids))
                /\ UNCHANGED <<temp_dir, retry_calls, sleeps, candidates,
                               conv_caller>>
           ELSE \E raised \in BOOLEAN, drop \in ItemDrops(video_id),
                   exc \in DownloadErrors :
                  /\ temp_dir' = temp_dir \cup drop
                  /\ retry_calls' =
                        Append(retry_calls, RetryCall(video_id, url, raised))
                  /\ IF raised
                     THEN /\ failed_details' =
                                record_failure(failed_details, link_map,
                                    video_id, ReasonRetry(exc), url)
                          /\ sleeps' = Append(sleeps, Min(10, 2))
                          /\ pc' = RetryOrFinalize(Tail(pending_ids))
                          /\ UNCHANGED <<candidates, conv_caller>>
                     ELSE /\ pc' = "converting"
                          /\ candidates' = temp_dir'
                          /\ conv_caller' = "retry"
                          /\ UNCHANGED <<failed_details, sleeps>>
    /\ pending_ids' = Tail(pending_ids)
    /\ UNCHANGED <<has_entries, link_map, successful_ids, temp_exists, attempt,
                   audio_files, link_files, failed_report, bulk_left,
                   ffmpeg_calls>>
    /\ UNCHANGED <<bulk_result, succ_first_pass>>
    /\ UNCHANGED <<runVars, regVars, fnVars>>

\* temp_webm/ emptied but left in place
rmtree_keeps_dir(entries, exists) == [entries |-> {}, exists |-> exists]

\* line 443: shutil.rmtree(temp_dir, ignore_errors=True)
rmtree(entries, exists) == [entries |-> {}, exists |-> FALSE]

\* lines 414-443: remaining ids recorded, report written or deleted,
\* temp_webm/ removed
Finalize ==
    /\ pc = "finalizing"
    /\ failed_details' =
          RecordRemaining(NotSuccessful(link_map, successful_ids),
                          failed_details, link_map)
    /\ failed_report' = WriteReport(failed_details', failed_report)
    /\ temp_dir' = rmtree(temp_dir, temp_exists).entries
    /\ temp_exists' = rmtree(temp_dir, temp_exists).exists
    /\ pc' = "done"
    /\ UNCHANGED <<has_entries, link_map, successful_ids, candidates,
                   conv_caller, attempt, pending_ids, audio_files,
                   link_files, sleeps, bulk_left, retry_calls, ffmpeg_calls>>
    /\ UNCHANGED <<bulk_result, succ_first_pass>>
    /\ UNCHANGED <<runVars, regVars, fnVars>>

EngineNext ==
    \/ ResolveFails
    \/ Resolve
    \/ BulkAttempt
    \/ ConvertStep
    \/ AfterFirstPass
    \/ AfterRetryPass
    \/ RetryItem
    \/ Finalize

RunIdle ==
    /\ run_pc = "idle"
    /\ ffmpeg_override = ""
    /\ fs_files = {}
    /\ ffmpeg_path = ""
    /\ playlists_exists = FALSE
    /\ playlist_file = LoadError
    /\ options = <<>>
    /\ updated = FALSE
    /\ selections = <<>>
    /\ sel_idx = 0
    /\ run_events = <<>>

RegIdle ==
    /\ reg_pc = "idle"
    /\ file_lines = <<>>
    /\ first_load = LoadError
    /\ second_load = LoadError

SanIdle ==
    /\ san_pc = "idle"
    /\ san_name = <<>>
    /\ san_result = <<>>

PromptIdle ==
    /\ prompt_pc = "idle"
    /\ playlists = <<>>
    /\ choice = <<>>
    /\ selected = <<>>

LedIdle ==
    /\ led_pc = "idle"
    /\ led_fd = EmptyDict
    /\ led_lm = <<>>
    /\ led_call = <<>>
    /\ led_out = EmptyDict

MenuIdle ==
    /\ menu_pc = "idle"
    /\ menu_round = 0
    /\ menu_log = <<>>

Init ==
    /\ EngineInit /\ RunIdle /\ RegIdle
    /\ SanIdle /\ PromptIdle /\ LedIdle /\ MenuIdle

Next == EngineNext

\* one playlist's acquisition
Spec == Init /\ [][Next]_vars

----------------------------------------------------------------------------
(* Properties of one playlist's acquisition *)

\* download_playlist_audio returned after the finalisation (not by the
\* early return on an empty playlist, not by an exception)
Finished == pc = "done" /\ has_entries

InSuccessSet(id) ==
    id \in successful_ids /\ id \in audio_files /\ id \in DOMAIN link_files

InLedger(id) ==
    id \in DOMAIN failed_details /\ failed_details[id].reason # ""

\* C1: when the acquisition of a playlist with at least one entry has
\* finished, every id of link_map is either in the success set (audio file
\* and link file written) or in the failure ledger with a reason, and
\* never both.
C1_ExactlyOneOutcome ==
    Finished =>
        \A id \in LinkIds(link_map) : InSuccessSet(id) # InLedger(id)

\* C2: success is sticky: after the finalisation no id is both in the
\* success set and in the failure ledger.
C2_SuccessSticky ==
    Finished => successful_ids \cap DOMAIN failed_details = {}

\* C3: after the finalisation the success set and the ledger together
\* count exactly the ids of link_map.
C3_CountsAddUp ==
    Finished =>
        Cardinality(successful_ids) + Cardinality(DOMAIN failed_details)
            = Len(link_map)

\* C4: the bulk download is best effort: leaving the bulk loop, also after
\* three failed attempts of either kind, leads to the conversion pass and
\* never out of download_playlist_audio.
C4_BulkBestEffort ==
    [][pc = "bulk" /\ pc' # "bulk" => pc' = "converting"]_vars

\* C5: no per-item failure aborts a playlist: every per-item download that
\* raised is accounted for in the ledger or the success set once the
\* playlist is finished, every pending id is visited, and the only error
\* that leaves download_playlist_audio is a metadata-resolution failure.
C5_OnlyMetadataFailureEscapes ==
    /\ pc \in {"resolving", "bulk", "converting", "retry", "finalizing",
               "done", "raised_metadata"}
    /\ Finished =>
          /\ \A i \in 1..Len(retry_calls) :
                retry_calls[i].raised =>
                    retry_calls[i].video_id \in
                        (DOMAIN failed_details) \cup successful_ids
          /\ pending_ids = <<>>

\* the scenario of C6: link_map is a -> u1, b -> u2; the bulk loop left
\* a.webm alone; its conversion succeeded; the per-item download of b
\* raised
C6_Scenario ==
    /\ Finished
    /\ link_map = <<[id |-> "a", url |-> "u1"], [id |-> "b", url |-> "u2"]>>
    /\ bulk_left = {File(<<"a", "webm">>)}
    /\ ffmpeg_calls = {[name |-> <<"a", "webm">>, ok |-> TRUE]}
    /\ Len(retry_calls) = 1
    /\ retry_calls[1].video_id = "b"
    /\ retry_calls[1].raised

\* C6: in that scenario the success set is {a}, the ledger holds b alone,
\* with url u2 and a reason that begins with "individual retry failed",
\* and the report file lists exactly the line of b.
C6_ScenarioOutcome ==
    C6_Scenario =>
        /\ successful_ids = {"a"}
        /\ DOMAIN failed_details = {"b"}
        /\ failed_details["b"].url = "u2"
        /\ \E exc \in DownloadErrors :
              /\ failed_details["b"].reason = "individual retry failed: " \o exc
              /\ failed_report =
                    [exists |-> TRUE,
                     lines |-> <<"b | u2 | individual retry failed: " \o exc>>]

C6_Witness == C6_Scenario /\ failed_report.exists

\* a temp entry that is a file whose name ends in .part
EndsInPart(f) ==
    ~f.is_dir /\ Len(f.name) >= 2 /\ f.name[Len(f.name)] = "part"

\* C7: a conversion pass that visits a file whose name ends in .part
\* deletes it, does not invoke the transcoder, and records one failure,
\* for the id its name gives, with the reason that mentions the
\* interruption; no other ledger entry changes.
C7_PartialDeletedAndRecorded ==
    [][(pc = "converting" /\ pc' = "converting") =>
        \A f \in candidates \ candidates' :
            EndsInPart(f) =>
                /\ f \notin temp_dir'
                /\ ffmpeg_calls' = ffmpeg_calls
                /\ DOMAIN failed_details' =
                      (DOMAIN failed_details) \cup {f.name[1]}
                /\ failed_details'[f.name[1]].reason =
                      "partial download detected (yt-dlp interruption)"
                /\ \A id \in (DOMAIN failed_details) \ {f.name[1]} :
                      failed_details'[id] = failed_details[id]]_vars

C7_Witness ==
    /\ pc = "converting"
    /\ \E f \in bulk_left :
          /\ EndsInPart(f)
          /\ f \notin candidates
          /\ f \notin temp_dir
          /\ f.name[1] \in DOMAIN failed_details
          /\ failed_details[f.name[1]].reason = ReasonPartial

----------------------------------------------------------------------------
(* The registry round trip: load, save, load *)

RegistryInit ==
    /\ reg_pc = "file"
    /\ file_lines \in SeqsUpTo(Lines, MaxLines)
    /\ first_load = LoadError
    /\ second_load = LoadError

\* load_playlist_configs(path) on the file as given
FirstLoad ==
    /\ reg_pc = "file"
    /\ first_load' = load_playlist_configs(file_lines)
    /\ reg_pc' = IF first_load'.ok THEN "loaded" ELSE "load_failed"
    /\ UNCHANGED <<file_lines, second_load, engineVars, runVars, fnVars>>

\* save_playlist_configs(path, data) with the data just loaded
SaveLoaded ==
    /\ reg_pc = "loaded"
    /\ file_lines' = save_playlist_configs(first_load)
    /\ reg_pc' = "saved"
    /\ UNCHANGED <<first_load, second_load, engineVars, runVars, fnVars>>

\* load_playlist_configs(path) on the file as saved
SecondLoad ==
    /\ reg_pc = "saved"
    /\ second_load' = load_playlist_configs(file_lines)
    /\ reg_pc' = "reloaded"
    /\ UNCHANGED <<file_lines, first_load, engineVars, runVars, fnVars>>

EngineIdle ==
    /\ EngineInit
    /\ failed_report = NoReport

RegistryNext ==
    \/ FirstLoad
    \/ SaveLoaded
    \/ SecondLoad

\* the playlist registry's round trip over every bounded file
InitRegistry ==
    /\ EngineIdle /\ RunIdle /\ RegistryInit
    /\ SanIdle /\ PromptIdle /\ LedIdle /\ MenuIdle

SpecRegistry == InitRegistry /\ [][RegistryNext]_vars

\* C10: for every playlists file that loads, load then save then load
\* yields the configs (url and name, in order) of the first load.
C10_RoundTrip ==
    reg_pc = "reloaded" =>
        second_load.ok /\ second_load.configs = first_load.configs

----------------------------------------------------------------------------
(* run(): locate ffmpeg, load the playlists, name them, prompt, download *)

\* FFMPEG_CANDIDATES; "$FFMPEG_PATH" stands for
\* Path(os.environ.get("FFMPEG_PATH", "")), which is "." when unset
FFMPEG_CANDIDATES ==
    <<"$FFMPEG_PATH", "C:/ffmpeg/bin/ffmpeg.exe", "C:/ffmpeg/ffmpeg.exe">>

RECURSIVE FirstFile(_, _)
\* lines 77-79: the first candidate that exists and is a file, else ""
FirstFile(paths, files) ==
    IF Len(paths) = 0 THEN ""
    ELSE IF Head(paths) \in files THEN Head(paths)
    ELSE FirstFile(Tail(paths), files)

\* resolve_ffmpeg_path(explicit_path): the path, or "" for FileNotFoundError
resolve_ffmpeg_path(explicit_path, files) ==
    IF explicit_path # "" THEN FirstFile(<<explicit_path>>, files)
    ELSE FirstFile(FFMPEG_CANDIDATES, files)

\* the playlists files run() is started on
RunFiles ==
    { <<>>,
      << <<"a">> >>,
      << <<"n", "|", "a">>, <<"b">> >>,
      << <<"#", "x">>, <<"a">>, <<"n", "|", "b">>, <<"c">> >> }

\* overview.get("title"): a title, or <<>> when there is none
Titles == {<<"t">>, <<>>}

\* how download_playlist_audio can end: the final values of pc
PlaylistOutcomes == {"done", "raised_metadata", "raised_bulk"}

Event(op, arg, raised) == [op |-> op, arg |-> arg, raised |-> raised]

PlaylistOption(config, display_title) ==
    [config |-> config, display_title |-> display_title]

RunInit ==
    /\ run_pc = "start"
    /\ ffmpeg_override \in {"", "x/ffmpeg"}
    /\ fs_files \in SUBSET {"x/ffmpeg", "$FFMPEG_PATH",
                            "C:/ffmpeg/bin/ffmpeg.exe"}
    /\ ffmpeg_path = ""
    /\ playlists_exists \in BOOLEAN
    /\ file_lines \in RunFiles
    /\ playlists_exists = FALSE => file_lines = <<>>
    /\ playlist_file = LoadError
    /\ options = <<>>
    /\ updated = FALSE
    /\ selections = <<>>
    /\ sel_idx = 0
    /\ run_events = <<>>
    /\ reg_pc = "idle"
    /\ first_load = LoadError
    /\ second_load = LoadError

\* mutant of AfterLocate: a missing executable does not stop run()
AfterLocate_continue(path) == "load"

\* line 472: where run() goes once resolve_ffmpeg_path returned path or
\* raised (path = "")
AfterLocate(path) == IF path = "" THEN "aborted" ELSE "load"

\* lines 468-474
RunLocate ==
    /\ run_pc = "start"
    /\ ffmpeg_path' = resolve_ffmpeg_path(ffmpeg_override, fs_files)
    /\ run_events' = Append(run_events,
                        Event("resolve_ffmpeg_path", <<>>, ffmpeg_path' = ""))
    /\ run_pc' = AfterLocate(ffmpeg_path')
    /\ UNCHANGED <<ffmpeg_override, fs_files, playlists_exists,
                   playlist_file, options, updated, selections, sel_idx>>
    /\ UNCHANGED <<engineVars, regVars, fnVars>>

\* line 476: load_playlist_configs, which raises on a missing file, a line
\* without url or a file without configs
RunLoad ==
    /\ run_pc = "load"
    /\ LET loaded == IF playlists_exists
                     THEN load_playlist_configs(file_lines) ELSE LoadError
       IN  /\ playlist_file' = loaded
           /\ run_events' = Append(run_events,
                               Event("load_playlist_configs", <<>>, ~loaded.ok))
           /\ run_pc' = IF loaded.ok THEN "overview" ELSE "aborted"
    /\ UNCHANGED <<ffmpeg_override, fs_files, ffmpeg_path, playlists_exists,
                   options, updated, selections, sel_idx>>
    /\ UNCHANGED <<engineVars, regVars, fnVars>>

\* the overview asked for whatever the config holds
NeedsOverview_always(config) == TRUE

\* line 484: `if config.name is None`
NeedsOverview(config) == config.name = <<>>

\* lines 480-502: one iteration of the loop over playlist_file.configs
RunOverview ==
    /\ run_pc = "overview"
    /\ Len(options) < Len(playlist_file.configs)
    /\ LET i == Len(options) + 1
           config == playlist_file.configs[i]
           fallback == IF config.name # <<>> THEN config.name ELSE config.url
       IN  IF ~NeedsOverview(config)
           THEN /\ options' = Append(options, PlaylistOption(config, fallback))
                /\ UNCHANGED <<playlist_file, updated, run_events>>
           ELSE \E raised \in BOOLEAN, title \in Titles :
                  LET display_title == IF title # <<>> THEN title
                                       ELSE fallback
                      named == [config EXCEPT !.name = display_title]
                  IN  /\ raised => title = <<>>
                      /\ run_events' =
                            Append(run_events,
                                Event("extract_playlist_overview",
                                      config.url, raised))
                      /\ IF raised
                         THEN /\ options' = Append(options,
                                     PlaylistOption(config, fallback))
                              /\ UNCHANGED <<playlist_file, updated>>
                         ELSE /\ playlist_file' =
                                    [playlist_file EXCEPT !.configs[i] = named]
                              /\ updated' = TRUE
                              /\ options' = Append(options,
                                     PlaylistOption(named, display_title))
    /\ UNCHANGED <<run_pc, ffmpeg_override, fs_files, ffmpeg_path,
                   playlists_exists, selections, sel_idx>>
    /\ UNCHANGED <<engineVars, regVars, fnVars>>

\* lines 504-509: the file is rewritten when a name was discovered
RunSave ==
    /\ run_pc = "overview"
    /\ Len(options) = Len(playlist_file.configs)
    /\ IF updated
       THEN /\ file_lines' = save_playlist_configs(playlist_file)
            /\ run_events' = Append(run_events,
                                Event("save_playlist_configs", <<>>, FALSE))
       ELSE UNCHANGED <<file_lines, run_events>>
    /\ run_pc' = IF options = <<>> THEN "finished" ELSE "prompt"
    /\ UNCHANGED <<ffmpeg_override, fs_files, ffmpeg_path, playlists_exists,
                   playlist_file, options, updated, selections, sel_idx>>
    /\ UNCHANGED <<engineVars, reg_pc, first_load, second_load, fnVars>>

\* length of the list the prompt returns
MaxSelections == 3

\* what prompt_for_playlist_selection(options) can return for non-empty
\* options: the positions of a non-empty list of options, an option at
\* most twice (picked by name, line 249, and then by number, line 235)
Selections(n) ==
    {sel \in SeqsUpTo(1..n, MaxSelections) :
        /\ Len(sel) > 0
        /\ \A k \in 1..n :
              Cardinality({i \in 1..Len(sel) : sel[i] = k}) <= 2}

\* lines 511-514
RunPrompt ==
    /\ run_pc = "prompt"
    /\ \E sel \in Selections(Len(options)) :
          selections' = [i \in 1..Len(sel) |-> options[sel[i]]]
    /\ run_events' = Append(run_events,
                        Event("prompt_for_playlist_selection", <<>>, FALSE))
    /\ sel_idx' = 1
    /\ run_pc' = IF selections' = <<>> THEN "finished" ELSE "batch"
    /\ UNCHANGED <<ffmpeg_override, fs_files, ffmpeg_path, playlists_exists,
                   playlist_file, options, updated>>
    /\ UNCHANGED <<engineVars, regVars, fnVars>>

\* mutant of AfterPlaylist: a playlist that raised ends the batch
AfterPlaylist_abort(i, raised) ==
    IF raised THEN Len(selections) + 1 ELSE i + 1

\* lines 516-522: the position of the loop over selections after the
\* playlist at position i returned or raised
AfterPlaylist(i, raised) == i + 1

\* lines 516-522: one iteration of the loop over selections
RunPlaylist ==
    /\ run_pc = "batch"
    /\ sel_idx <= Len(selections)
    /\ \E outcome \in PlaylistOutcomes :
         LET url == selections[sel_idx].config.url
             raised == outcome # "done"
             called == Append(run_events,
                          Event("download_playlist_audio", url, raised))
         IN  /\ run_events' = IF raised
                              THEN Append(called,
                                      Event("logging.error", url, FALSE))
                              ELSE called
             /\ sel_idx' = AfterPlaylist(sel_idx, raised)
             /\ run_pc' = IF sel_idx' > Len(selections) THEN "finished"
                          ELSE "batch"
    /\ UNCHANGED <<ffmpeg_override, fs_files, ffmpeg_path, playlists_exists,
                   playlist_file, options, updated, selections>>
    /\ UNCHANGED <<engineVars, regVars, fnVars>>

RunNext ==
    \/ RunLocate
    \/ RunLoad
    \/ RunOverview
    \/ RunSave
    \/ RunPrompt
    \/ RunPlaylist

InitRun ==
    /\ EngineIdle /\ RunInit
    /\ SanIdle /\ PromptIdle /\ LedIdle /\ MenuIdle

\* one call of run()
SpecRun == InitRun /\ [][RunNext]_vars

----------------------------------------------------------------------------
(* Properties of run() *)

\* the urls of the download_playlist_audio calls made so far, in order
DownloadedUrls ==
    LET calls == SelectSeq(run_events,
                     LAMBDA e : e.op = "download_playlist_audio")
    IN  [i \in 1..Len(calls) |-> calls[i].arg]

SelectedUrls == [i \in 1..Len(selections) |-> selections[i].config.url]

\* C8: every selected playlist is attempted, in selection order: while the
\* batch runs the playlists attempted are those before the loop position,
\* each failure is logged right after its call, and the batch ends only
\* when every selected playlist was attempted.
C8_EverySelectedPlaylistAttempted ==
    run_pc \in {"batch", "finished"} =>
        /\ DownloadedUrls = SubSeq(SelectedUrls, 1, sel_idx - 1)
        /\ run_pc = "finished" => DownloadedUrls = SelectedUrls
        /\ \A i \in 1..Len(run_events) :
              (run_events[i].op = "download_playlist_audio"
                  /\ run_events[i].raised) =>
                 /\ i < Len(run_events)
                 /\ run_events[i + 1] =
                       Event("logging.error", run_events[i].arg, FALSE)

C8_Witness ==
    /\ run_pc = "finished"
    /\ Len(selections) >= 2
    /\ \E i \in 1..Len(run_events) :
          /\ run_events[i].op = "download_playlist_audio"
          /\ run_events[i].raised
          /\ run_events[i].arg = selections[1].config.url
    /\ DownloadedUrls = SelectedUrls

\* C9: the transcoding executable is located once per run and before
\* anything else; when it is not found the run ends there: the playlists
\* file is not loaded or rewritten, no overview is fetched, nothing is
\* prompted for and nothing is downloaded.
C9_FfmpegLocatedFirst ==
    /\ Cardinality({i \in 1..Len(run_events) :
                       run_events[i].op = "resolve_ffmpeg_path"}) <= 1
    /\ run_events # <<>> => run_events[1].op = "resolve_ffmpeg_path"
    /\ run_pc \notin {"idle", "start"} => run_events # <<>>
    /\ (run_events # <<>> /\ run_events[1].raised) =>
          /\ run_pc = "aborted"
          /\ Len(run_events) = 1
          /\ playlist_file = LoadError
          /\ options = <<>>
          /\ selections = <<>>

C9_Witness ==
    /\ run_pc = "aborted"
    /\ ffmpeg_path = ""
    /\ playlists_exists
    /\ Len(file_lines) > 0
    /\ run_events = <<Event("resolve_ffmpeg_path", <<>>, TRUE)>>

-----------------------------------------------------------------------------
(* sanitize_name: names are sequences of characters                         *)

\* length of the names sanitize_name is applied to
MaxNameLen == 4

\* the characters names are drawn from: a letter, two kinds of whitespace,
\* the dot, and two of the forbidden characters
NameChars == {"a", " ", "\t", ".", "?", "/"}

\* line 37: the character class [<>:"/\\|?*]
INVALID_PATH_CHARS == {"<", ">", ":", "\"", "/", "\\", "|", "?", "*"}

\* what str.strip() removes and what \s matches
Whitespace == {" ", "\t", "\n", "\r"}

RECURSIVE LStripChars(_, _)
\* the leading characters of t that are in S removed
LStripChars(t, S) ==
    IF Len(t) > 0 /\ Head(t) \in S THEN LStripChars(Tail(t), S) ELSE t

RECURSIVE RStripChars(_, _)
\* the trailing characters of t that are in S removed
RStripChars(t, S) ==
    IF Len(t) > 0 /\ t[Len(t)] \in S
    THEN RStripChars(SubSeq(t, 1, Len(t) - 1), S)
    ELSE t

\* str.strip() with S the whitespace, str.strip(".") with S = {"."}
StripChars(t, S) == LStripChars(RStripChars(t, S), S)

\* line 87: INVALID_PATH_CHARS.sub("_", name)
SubInvalid(name) ==
    [i \in 1..Len(name) |->
        IF name[i] \in INVALID_PATH_CHARS THEN "_" ELSE name[i]]

RECURSIVE CollapseWhitespace(_)
\* line 89: re.sub(r"\s+", " ", t)
CollapseWhitespace(t) ==
    IF Len(t) = 0 THEN <<>>
    ELSE IF Head(t) \in Whitespace
         THEN <<" ">> \o CollapseWhitespace(LStripChars(t, Whitespace))
         ELSE <<Head(t)>> \o CollapseWhitespace(Tail(t))

\* line 90: the name returned for an empty result
FallbackName == <<"p", "l", "a", "y", "l", "i", "s", "t">>

\* sanitize_name without the fallback of line 90
sanitize_name_no_fallback(name) ==
    CollapseWhitespace(
        StripChars(StripChars(SubInvalid(name), Whitespace), {"."}))

\* lines 86-90
sanitize_name(name) ==
    LET sanitized ==
            CollapseWhitespace(
                StripChars(StripChars(SubInvalid(name), Whitespace), {"."}))
    IN  IF sanitized = <<>> THEN FallbackName ELSE sanitized

SanitizeInit ==
    /\ san_pc = "called"
    /\ san_name \in SeqsUpTo(NameChars, MaxNameLen)
    /\ san_result = <<>>

\* the call returns
SanitizeReturn ==
    /\ san_pc = "called"
    /\ san_result' = sanitize_name(san_name)
    /\ san_pc' = "returned"
    /\ UNCHANGED <<san_name, promptVars, ledVars, menuVars, engineVars,
                   runVars, regVars>>

SanitizeNext ==
    \/ SanitizeReturn

InitSanitize ==
    /\ EngineIdle /\ RunIdle /\ RegIdle
    /\ SanitizeInit /\ PromptIdle /\ LedIdle /\ MenuIdle

SpecSanitize == InitSanitize /\ [][SanitizeNext]_vars

OnlyForbidden(name) == \A i \in 1..Len(name) : name[i] \in INVALID_PATH_CHARS

OnlyWhitespace(name) == \A i \in 1..Len(name) : name[i] \in Whitespace

\* C11: sanitize_name never returns an empty string, and for every
\* non-empty name made only of forbidden filesystem characters it returns
\* the fixed fallback name "playlist".
C11_ForbiddenOnlyGivesFallback ==
    san_pc = "returned" =>
        /\ san_result # <<>>
        /\ (san_name # <<>> /\ OnlyForbidden(san_name)) =>
              san_result = FallbackName

\* C11 as the code has it: sanitize_name never returns an empty string; a
\* non-empty name made only of forbidden characters comes back as one "_"
\* per character, never as the fallback; the fallback is what an empty or
\* all-whitespace name gives.
C11_NeverEmptyForbiddenBecomeUnderscores ==
    san_pc = "returned" =>
        /\ san_result # <<>>
        /\ (san_name # <<>> /\ OnlyForbidden(san_name)) =>
              /\ san_result = [i \in 1..Len(san_name) |-> "_"]
              /\ san_result # FallbackName
        /\ OnlyWhitespace(san_name) => san_result = FallbackName

C11_Witness ==
    /\ san_pc = "returned"
    /\ san_name = <<"?", "/">>
    /\ san_result = <<"_", "_">>

-----------------------------------------------------------------------------
(* prompt_for_playlist_selection: the line typed is a sequence of characters *)

\* length of the line typed at the prompt
MaxChoiceLen == 3

\* how many options are presented
MaxOptions == 2

\* the characters the line is typed from
ChoiceChars == {"1", ",", " ", "x", "Y", "A"}

Choices == SeqsUpTo(ChoiceChars, MaxChoiceLen)

\* the options presented are taken from these: one named in the file,
\* one whose title came from the overview, one whose title and name differ
OptionPool ==
    { PlaylistOption(PlaylistConfig(<<"u">>, <<"x">>), <<"x">>),
      PlaylistOption(PlaylistConfig(<<"v">>, <<>>), <<"Y">>),
      PlaylistOption(PlaylistConfig(<<"w">>, <<"Y">>), <<"x">>) }

\* str.lower() on one character
LowerChar(c) ==
    CASE c = "A" -> "a"
      [] c = "Q" -> "q"
      [] c = "X" -> "x"
      [] c = "Y" -> "y"
      [] OTHER -> c

\* str.lower()
Lower(t) == [i \in 1..Len(t) |-> LowerChar(t[i])]

RECURSIVE SplitAcc(_, _, _)
SplitAcc(t, sep, cur) ==
    IF Len(t) = 0 THEN <<cur>>
    ELSE IF Head(t) = sep THEN <<cur>> \o SplitAcc(Tail(t), sep, <<>>)
    ELSE SplitAcc(Tail(t), sep, Append(cur, Head(t)))

\* str.split(sep)
Split(t, sep) == SplitAcc(t, sep, <<>>)

NonEmptyPart(part) == part # <<>>

\* line 228: [part.strip() for part in choice.split(",") if part.strip()]
Parts(stripped_choice) ==
    LET raw == Split(stripped_choice, ",")
    IN  SelectSeq([i \in 1..Len(raw) |-> StripChars(raw[i], Whitespace)],
                  NonEmptyPart)

DigitChars == <<"0", "1", "2", "3", "4", "5", "6", "7", "8", "9">>

\* str.isdigit()
IsDigit(part) == part # <<>> /\ \A i \in 1..Len(part) : part[i] \in Range(DigitChars)

DigitValue(c) == (CHOOSE i \in 1..10 : DigitChars[i] = c) - 1

RECURSIVE IntOf(_)
\* int(part) of a part that is all digits
IntOf(part) ==
    IF Len(part) = 0 THEN 0
    ELSE 10 * IntOf(SubSeq(part, 1, Len(part) - 1))
         + DigitValue(part[Len(part)])

\* lines 241-245: does the option answer to the lowered name
NameMatches(option, lowered) ==
    \/ Lower(option.display_title) = lowered
    \/ option.config.name # <<>> /\ Lower(option.config.name) = lowered

\* lines 239-247: position of the first option that matches, 0 for None
MatchByName(opts, lowered) ==
    IF \E i \in 1..Len(opts) : NameMatches(opts[i], lowered)
    THEN CHOOSE i \in 1..Len(opts) :
            /\ NameMatches(opts[i], lowered)
            /\ \A j \in 1..(i - 1) : ~NameMatches(opts[j], lowered)
    ELSE 0

RECURSIVE ParseParts(_, _, _, _)
\* lines 231-259: the for loop over parts; `at` is where it ends
ParseParts(parts, opts, sel, seen_indexes) ==
    IF Len(parts) = 0
    THEN IF Len(sel) > 0 THEN [at |-> "returned", selected |-> sel]
         ELSE [at |-> "nothing_selected", selected |-> sel]
    ELSE LET part == Head(parts)
         IN  IF IsDigit(part)
             THEN LET idx == IntOf(part)
                  IN  IF 1 <= idx /\ idx <= Len(opts)
                         /\ idx \notin seen_indexes
                      THEN ParseParts(Tail(parts), opts,
                                      Append(sel, opts[idx]),
                                      seen_indexes \cup {idx})
                      ELSE [at |-> "invalid_number", selected |-> sel]
             ELSE LET match == MatchByName(opts, Lower(part))
                  IN  IF match # 0 /\ opts[match] \notin Range(sel)
                      THEN ParseParts(Tail(parts), opts,
                                      Append(sel, opts[match]), seen_indexes)
                      ELSE [at |-> "not_recognised", selected |-> sel]

\* lines 221-263: one iteration of the while loop on the line typed
AnswerPrompt(opts, typed) ==
    LET stripped == StripChars(typed, Whitespace)
        chosen == IF stripped = <<>> THEN <<"a">> ELSE stripped
    IN  IF Lower(chosen) \in {<<"a">>, <<"a", "l", "l">>}
        THEN [at |-> "returned", selected |-> opts]
        ELSE ParseParts(Parts(chosen), opts, <<>>, {})

PromptInit ==
    /\ prompt_pc = "called"
    /\ playlists \in {opts \in SeqsUpTo(OptionPool, MaxOptions) :
                        \A i, j \in 1..Len(opts) :
                            i # j => opts[i] # opts[j]}
    /\ choice = <<>>
    /\ selected = <<>>

\* lines 209-210: nothing to choose from
PromptNoPlaylists ==
    /\ prompt_pc = "called"
    /\ playlists = <<>>
    /\ prompt_pc' = "returned"
    /\ UNCHANGED <<playlists, choice, selected>>
    /\ UNCHANGED <<sanVars, ledVars, menuVars, engineVars, runVars, regVars>>

\* lines 212-263: the menu is printed, a line is read and parsed; the
\* function returns or goes round the loop
PromptAnswer ==
    /\ prompt_pc \in {"called", "invalid_number", "not_recognised",
                      "nothing_selected"}
    /\ playlists # <<>>
    /\ \E typed \in Choices :
         LET answer == AnswerPrompt(playlists, typed)
         IN  /\ choice' = typed
             /\ selected' = answer.selected
             /\ prompt_pc' = answer.at
    /\ UNCHANGED playlists
    /\ UNCHANGED <<sanVars, ledVars, menuVars, engineVars, runVars, regVars>>

PromptNext ==
    \/ PromptNoPlaylists
    \/ PromptAnswer

InitPrompt ==
    /\ EngineIdle /\ RunIdle /\ RegIdle
    /\ SanIdle /\ PromptInit /\ LedIdle /\ MenuIdle

SpecPrompt == InitPrompt /\ [][PromptNext]_vars

\* a line has been read and parsed: choice is the latest line typed
Answered == prompt_pc \notin {"idle", "called"} /\ playlists # <<>>

\* the line typed asks for all playlists (lines 222-226)
AsksForAll(typed) ==
    LET stripped == StripChars(typed, Whitespace)
    IN  stripped = <<>> \/ Lower(stripped) \in {<<"a">>, <<"a", "l", "l">>}

\* the comma-separated tokens of the line typed
Tokens(typed) == Parts(StripChars(typed, Whitespace))

\* the position of the option a token stands for (its number, or the first
\* option with that title or name), 0 when it stands for none
Named(opts, part) ==
    IF IsDigit(part)
    THEN IF 1 <= IntOf(part) /\ IntOf(part) <= Len(opts) THEN IntOf(part)
         ELSE 0
    ELSE MatchByName(opts, Lower(part))

\* how often option occurs in sel
Occurrences(sel, option) == Cardinality({i \in 1..Len(sel) : sel[i] = option})

\* C12: an input that names the same playlist more than once (the same
\* index twice, the same name twice, or an index and the name of the same
\* playlist) is accepted and returns that playlist once: duplicates are
\* removed, not rejected.
C12_DuplicatesDeduplicated ==
    LET tokens == Tokens(choice)
        named == {Named(playlists, tokens[i]) : i \in 1..Len(tokens)}
    IN  ( /\ Answered
          /\ ~AsksForAll(choice)
          /\ 0 \notin named
          /\ \E i, j \in 1..Len(tokens) :
                i # j /\ Named(playlists, tokens[i])
                            = Named(playlists, tokens[j]) )
        => /\ prompt_pc = "returned"
           /\ Len(selected) = Cardinality(named)
           /\ \A k \in named : Occurrences(selected, playlists[k]) = 1

\* C13: with a non-empty list of options the prompt returns only a
\* non-empty list of distinct options taken from the presented list; an
\* attempt with an invalid token returns nothing and leaves nothing in a
\* later attempt's result; empty input returns all options.
C13_ReturnsDistinctPresentedOptions ==
    LET tokens == Tokens(choice)
        named == {Named(playlists, tokens[i]) : i \in 1..Len(tokens)}
    IN  /\ (prompt_pc = "returned" /\ playlists # <<>>) =>
              /\ selected # <<>>
              /\ Range(selected) \subseteq Range(playlists)
              /\ \A i, j \in 1..Len(selected) :
                    i # j => selected[i] # selected[j]
        /\ (Answered /\ ~AsksForAll(choice) /\ 0 \in named) =>
              prompt_pc # "returned"
        /\ (Answered /\ ~AsksForAll(choice) /\ prompt_pc = "returned") =>
              Range(selected) = {playlists[k] : k \in named}
        /\ (Answered /\ StripChars(choice, Whitespace) = <<>>) =>
              /\ prompt_pc = "returned"
              /\ selected = playlists

-----------------------------------------------------------------------------
(* The bulk loop, the conversion passes, the retry pass, the report          *)

\* the bulk loop has been left by a break or by the raise of line 368
BulkLoopLeft ==
    pc \in {"converting", "retry", "finalizing", "raised_bulk"}
    \/ (pc = "done" /\ has_entries)

\* C14: the bulk download is invoked at least once and at most 3 times per
\* playlist; the loop terminates (every iteration that stays in the loop
\* has counted one more attempt, and there is none after the third); the
\* wait before attempt k+1 is min(10, 2*k) seconds, 2 s and then 4 s; no
\* wait follows the last attempt; and no attempt follows one that returned
\* completion code 0.
C14_BulkLoopBounded ==
    /\ [](/\ attempt \in 0..3
          /\ BulkLoopLeft => attempt >= 1
          /\ pc = "bulk" =>
                /\ attempt < 3
                /\ sleeps = [k \in 1..attempt |-> Min(10, 2 * k)]
                /\ sleeps = SubSeq(<<2, 4>>, 1, attempt)
                /\ bulk_result # "zero"
          /\ BulkLoopLeft =>
                SubSeq(sleeps, 1, attempt - 1) = SubSeq(<<2, 4>>, 1, attempt - 1))
    /\ [][/\ (pc = "bulk" /\ pc' = "bulk") => attempt' = attempt + 1
          /\ (pc = "bulk" /\ pc' # "bulk") =>
                /\ attempt' = attempt + 1
                /\ sleeps' = sleeps
          /\ pc # "bulk" => attempt' = attempt
          /\ bulk_result = "zero" => attempt' = attempt]_vars

C14_Witness ==
    /\ pc = "converting"
    /\ attempt = 3
    /\ sleeps = <<2, 4>>
    /\ bulk_result = "zero"

NonDirs(entries) == {f \in entries : ~f.is_dir}

Dirs(entries) == {f \in entries : f.is_dir}

\* C15: in a conversion pass every non-directory entry visited is gone
\* from temp_webm/, whether converted, failed or partial, so none of those
\* the pass started with is left when it ends; directories stay where they
\* are and are never given to the transcoder.
C15_PassLeavesNoFile ==
    /\ pc = "converting" => NonDirs(temp_dir) \subseteq candidates
    /\ (pc = "converting" /\ candidates = {}) => NonDirs(temp_dir) = {}
    /\ pc \in {"converting", "retry", "finalizing"} =>
          Dirs(temp_dir) = Dirs(bulk_left)
    /\ \A call \in ffmpeg_calls :
          \A f \in Dirs(bulk_left) : call.name # f.name

C15_Witness ==
    /\ pc = "converting"
    /\ candidates = {}
    /\ conv_caller = "bulk"
    /\ bulk_left = {Dir(<<"d">>), File(<<"a", "webm">>),
                    File(<<"b", "webm", "part">>)}
    /\ ffmpeg_calls = {[name |-> <<"a", "webm">>, ok |-> FALSE]}
    /\ temp_dir = {Dir(<<"d">>)}

\* how many per-item downloads were made for id
RetryCount(id) ==
    Cardinality({i \in 1..Len(retry_calls) : retry_calls[i].video_id = id})

\* the first conversion pass is over
FirstPassOver ==
    \/ pc \in {"retry", "finalizing"}
    \/ pc = "converting" /\ conv_caller = "retry"
    \/ Finished

\* C16: the retry pass makes exactly one per-item download for each id of
\* link_map that is not in the success set when the first conversion pass
\* ends, with ignoreerrors off and noplaylist on, and none for an id that
\* is in the success set at that moment; when every id of link_map was
\* successful after the bulk pass there is no per-item download.
C16_RetryOncePerPendingId ==
    /\ [](/\ \A i \in 1..Len(retry_calls) :
                /\ retry_calls[i].ignoreerrors = FALSE
                /\ retry_calls[i].noplaylist = TRUE
                /\ retry_calls[i].video_id \in
                      LinkIds(link_map) \ succ_first_pass
                /\ retry_calls[i].url =
                      LinkGet(link_map, retry_calls[i].video_id)
          /\ \A id \in LinkIds(link_map) : RetryCount(id) <= 1
          /\ ~FirstPassOver => retry_calls = <<>>
          /\ (FirstPassOver /\ LinkIds(link_map) \subseteq succ_first_pass)
                => retry_calls = <<>>
          /\ (pc = "finalizing" \/ Finished) =>
                \A id \in LinkIds(link_map) \ succ_first_pass :
                    RetryCount(id) = 1)
    /\ [][retry_calls' # retry_calls =>
            /\ Len(retry_calls') = Len(retry_calls) + 1
            /\ SubSeq(retry_calls', 1, Len(retry_calls)) = retry_calls
            /\ retry_calls'[Len(retry_calls')].video_id
                  \notin successful_ids]_vars

C16_Witness ==
    /\ Finished
    /\ link_map = <<[id |-> "b", url |-> "u2"], [id |-> "a", url |-> "u1"]>>
    /\ succ_first_pass = {"a"}
    /\ Len(retry_calls) = 1
    /\ retry_calls[1].video_id = "b"
    /\ successful_ids = {"a", "b"}

\* the ids of the ledger in ascending order
LedgerIdsAscending ==
    SelectSeq(<<"a", "b", "c">>, LAMBDA id : id \in DOMAIN failed_details)

\* C17: when a playlist with at least one entry is finished, the report
\* file exists exactly when the ledger is non-empty; it then has one line
\* per ledger id, in ascending order of the ids, with the url and the
\* reason the ledger holds for the id; a report of an earlier run is gone
\* when the ledger is empty.
C17_ReportMirrorsLedger ==
    Finished =>
        /\ failed_report.exists <=> (DOMAIN failed_details # {})
        /\ ~failed_report.exists => failed_report.lines = <<>>
        /\ failed_report.exists =>
              /\ Len(failed_report.lines) = Cardinality(DOMAIN failed_details)
              /\ \A k \in 1..Len(failed_report.lines) :
                    LET id == LedgerIdsAscending[k]
                    IN  failed_report.lines[k] =
                            id \o " | " \o failed_details[id].url
                               \o " | " \o failed_details[id].reason

C17_Witness ==
    /\ Finished
    /\ link_map = <<[id |-> "b", url |-> "u2"], [id |-> "a", url |-> "u1"]>>
    /\ DOMAIN failed_details = {"a", "b"}
    /\ Len(failed_report.lines) = 2
    /\ failed_report.lines[1] = "a | u1 | " \o ReasonNoAudio

\* C18: a playlist that resolves to no usable entry ends at once: no
\* download, no conversion, nothing in the success set or the ledger, and
\* the report file as it was.
C18_NoEntriesNoWork ==
    /\ []((pc = "done" /\ ~has_entries) =>
            /\ attempt = 0
            /\ bulk_result = "none"
            /\ retry_calls = <<>>
            /\ ffmpeg_calls = {}
            /\ sleeps = <<>>
            /\ successful_ids = {}
            /\ failed_details = EmptyDict
            /\ audio_files = {}
            /\ link_map = <<>>)
    /\ [][(pc' = "done" /\ ~has_entries') =>
            failed_report' = failed_report]_vars

C18_Witness ==
    /\ pc = "done"
    /\ ~has_entries
    /\ failed_report = StaleReport
    /\ attempt = 0

-----------------------------------------------------------------------------
(* record_failure and failed_details.pop on a given ledger                   *)

\* the ids a call can be about: none, two of link_map, one outside it
LedgerIds == {"", "a", "b", "c"}

\* what the ledger can hold for an id before the call
LedgerDetails == [url : {"", "u1", "u9"}, reason : {"earlier reason"}]

\* the ledgers before the call
Ledgers == UNION {[ids -> LedgerDetails] : ids \in SUBSET {"a", "b"}}

\* the link maps of the playlist
LedgerLinkMaps ==
    { <<>>,
      <<[id |-> "a", url |-> "u1"]>>,
      <<[id |-> "b", url |-> "u2"], [id |-> "a", url |-> "u1"]>> }

\* the calls: record_failure(video_id, reason, url) with url "" for None,
\* and failed_details.pop(video_id, None)
LedgerCalls ==
    [op : {"record_failure", "pop"}, video_id : LedgerIds,
     reason : {"latest reason"}, url : {"", "u7"}]

LedgerInit ==
    /\ led_pc = "called"
    /\ led_fd \in Ledgers
    /\ led_lm \in LedgerLinkMaps
    /\ led_call \in LedgerCalls
    /\ led_call.op = "pop" => led_call.url = ""
    /\ led_out = led_fd

\* lines 300-305
LedgerRecord ==
    /\ led_pc = "called"
    /\ led_call.op = "record_failure"
    /\ led_out' = record_failure(led_fd, led_lm, led_call.video_id,
                                 led_call.reason, led_call.url)
    /\ led_pc' = "returned"
    /\ UNCHANGED <<led_fd, led_lm, led_call>>
    /\ UNCHANGED <<sanVars, promptVars, menuVars, engineVars, runVars,
                   regVars>>

\* line 322
LedgerPop ==
    /\ led_pc = "called"
    /\ led_call.op = "pop"
    /\ led_out' = DictPop(led_fd, led_call.video_id)
    /\ led_pc' = "returned"
    /\ UNCHANGED <<led_fd, led_lm, led_call>>
    /\ UNCHANGED <<sanVars, promptVars, menuVars, engineVars, runVars,
                   regVars>>

LedgerNext ==
    \/ LedgerRecord
    \/ LedgerPop

InitLedger ==
    /\ EngineIdle /\ RunIdle /\ RegIdle
    /\ SanIdle /\ PromptIdle /\ LedgerInit /\ MenuIdle

SpecLedger == InitLedger /\ [][LedgerNext]_vars

\* the entries of the ids other than id are the same in fd and out
OthersUntouched(fd, out, id) ==
    \A other \in LedgerIds \ {id} :
        /\ other \in DOMAIN out <=> other \in DOMAIN fd
        /\ other \in DOMAIN fd => out[other] = fd[other]

\* C19: record(id, reason, url) of a non-empty id leaves an entry for id
\* whose reason is the one just given and whose url is the caller's if
\* given, else the one already stored for id, else link_map's for id, else
\* empty; clear(id) removes the entry of id; the entries of the other ids
\* stay as they were.
C19_RecordUpsertsClearRemoves ==
    LET id == led_call.video_id
        stored == IF id \in DOMAIN led_fd THEN led_fd[id].url ELSE ""
        linked == IF \E i \in 1..Len(led_lm) : led_lm[i].id = id
                  THEN led_lm[CHOOSE i \in 1..Len(led_lm) :
                                  led_lm[i].id = id].url
                  ELSE ""
    IN  /\ (led_pc = "returned" /\ led_call.op = "record_failure" /\ id # "")
            => /\ id \in DOMAIN led_out
               /\ led_out[id].reason = led_call.reason
               /\ led_out[id].url =
                     IF led_call.url # "" THEN led_call.url
                     ELSE IF stored # "" THEN stored
                     ELSE linked
               /\ OthersUntouched(led_fd, led_out, id)
        /\ (led_pc = "returned" /\ led_call.op = "pop")
            => /\ id \notin DOMAIN led_out
               /\ OthersUntouched(led_fd, led_out, id)

\* an id whose stored url differs from link_map's is recorded again
\* without a url: the stored one is kept
C19_Witness ==
    /\ led_pc = "returned"
    /\ led_call = [op |-> "record_failure", video_id |-> "a",
                   reason |-> "latest reason", url |-> ""]
    /\ "a" \in DOMAIN led_fd
    /\ led_fd["a"].url = "u9"
    /\ LinkGet(led_lm, "a") = "u1"
    /\ "b" \in DOMAIN led_fd
    /\ led_out["a"] = [url |-> "u9", reason |-> "latest reason"]

-----------------------------------------------------------------------------
(* run(): the overview loop and the rewrite of the playlists file            *)

OverviewEvents ==
    {i \in 1..Len(run_events) : run_events[i].op = "extract_playlist_overview"}

SaveEvents ==
    {i \in 1..Len(run_events) : run_events[i].op = "save_playlist_configs"}

\* C20: the overview is fetched only for a config without a name; a name,
\* once a config has one, is not set again in the run; and the playlists
\* file is rewritten only when a name was discovered in this run -- not
\* when every config is named already or every overview fails.
C20_OverviewOnlyForUnnamed ==
    /\ [](/\ Cardinality(SaveEvents) <= 1
          /\ \A s \in SaveEvents :
                \E o \in OverviewEvents : o < s /\ ~run_events[o].raised
          /\ (\A o \in OverviewEvents : run_events[o].raised) => ~updated)
    /\ [][/\ (run_pc = "overview" /\ options' # options) =>
               LET config == playlist_file.configs[Len(options) + 1]
               IN  IF config.name # <<>>
                   THEN /\ run_events' = run_events
                        /\ playlist_file' = playlist_file
                   ELSE /\ Len(run_events') = Len(run_events) + 1
                        /\ run_events'[Len(run_events')].op =
                              "extract_playlist_overview"
                        /\ run_events'[Len(run_events')].arg = config.url
          /\ (playlist_file.ok /\ playlist_file'.ok) =>
               /\ Len(playlist_file'.configs) = Len(playlist_file.configs)
               /\ \A i \in 1..Len(playlist_file.configs) :
                     /\ playlist_file'.configs[i].url
                           = playlist_file.configs[i].url
                     /\ playlist_file.configs[i].name # <<>> =>
                           playlist_file'.configs[i].name
                               = playlist_file.configs[i].name
          /\ file_lines' # file_lines =>
               /\ SaveEvents = {}
               /\ Cardinality({i \in 1..Len(run_events') :
                     run_events'[i].op = "save_playlist_configs"}) = 1
               /\ \E o \in OverviewEvents : ~run_events[o].raised]_vars

C20_Witness ==
    /\ run_pc = "prompt"
    /\ Len(playlist_file.configs) = 2
    /\ playlist_file.configs[1] = PlaylistConfig(<<"a">>, <<"n">>)
    /\ playlist_file.configs[2] = PlaylistConfig(<<"b">>, <<"t">>)
    /\ Cardinality(OverviewEvents) = 1
    /\ Cardinality(SaveEvents) = 1
    /\ file_lines = << <<"n", "|", "a">>, <<"t", "|", "b">> >>

-----------------------------------------------------------------------------
(* temp_webm/ at the end of download_playlist_audio                          *)

\* C21: whenever download_playlist_audio ends normally (DONE), temp_webm/
\* of the playlist no longer exists: it is removed entirely, after the
\* failure report has been written or deleted.
C21_TempGoneWhenDone ==
    pc = "done" => (~temp_exists /\ temp_dir = {})

\* C21 as the code has it: when a playlist with at least one entry is
\* done, temp_webm/ is gone with all it held, and the report is then
\* already written or deleted; until then temp_webm/ exists; a playlist
\* without entries is done with the temp_webm/ that line 278 made still
\* there.
C21_TempGoneWhenDoneWithEntries ==
    /\ Finished =>
          /\ ~temp_exists
          /\ temp_dir = {}
          /\ failed_report.exists <=> (DOMAIN failed_details # {})
    /\ (has_entries /\ pc # "done") => temp_exists
    /\ (has_entries /\ ~temp_exists) => pc = "done"
    /\ (pc = "done" /\ ~has_entries) => temp_exists

C21_Witness ==
    /\ Finished
    /\ ~temp_exists
    /\ temp_dir = {}
    /\ Dir(<<"d">>) \in bulk_left
    /\ failed_report.exists
    /\ Len(retry_calls) > 0
    /\ retry_calls[Len(retry_calls)].raised

-----------------------------------------------------------------------------
(* main.menu() and dependencies.installer.run()                              *)

\* how many times the menu is shown
MaxRounds == 3

\* the lines typed at "Select an option: "
MenuInputs ==
    {<<"1">>, <<" ", "1">>, <<"2">>, <<"q">>, <<"Q">>, <<"x">>, <<>>}

\* the lines typed at "Install now? [Y/N]: "
InstallAnswers == {<<"y">>, <<"Y", " ">>, <<"n">>, <<>>}

\* installer.py lines 48-62: install_requirements()
install_requirements(exists, returncode) ==
    IF ~exists THEN FALSE
    ELSE returncode = 0

\* installer.py lines 65-77: run()
installer_run(missing, answer, exists, returncode) ==
    IF ~missing THEN TRUE
    ELSE IF Lower(StripChars(answer, Whitespace)) # <<"y">> THEN FALSE
    ELSE install_requirements(exists, returncode)

\* how a call of ensure_dependencies can end
DependencyOutcomes ==
    {"raised"} \cup
    {IF installer_run(missing, answer, exists, returncode)
     THEN "true" ELSE "false" :
        missing \in BOOLEAN, answer \in InstallAnswers,
        exists \in BOOLEAN, returncode \in {0, 1}}

\* how a call of run_downloads can end
CallbackOutcomes == {"returned", "raised"}

MenuEvent(round, op, outcome) ==
    [round |-> round, op |-> op, outcome |-> outcome]

\* main.py lines 66-68: the handler, then wait_for_enter
ReportedError(round) ==
    <<MenuEvent(round, "print_error", ""),
      MenuEvent(round, "wait_for_enter", "")>>

\* option 1 with the callback called whatever the check returned
DownloadBranch_unchecked(round, deps_ok, cb) ==
    LET check == <<MenuEvent(round, "dependency_check", deps_ok)>>
        call == <<MenuEvent(round, "run_downloads", cb)>>
    IN  IF deps_ok = "raised"
        THEN [pc |-> "menu", log |-> check \o ReportedError(round)]
        ELSE IF cb = "raised"
        THEN [pc |-> "menu", log |-> check \o call \o ReportedError(round)]
        ELSE [pc |-> "menu",
              log |-> check \o call
                      \o <<MenuEvent(round, "wait_for_enter", "")>>]

\* main.py lines 51-68 for option 1: require_dependencies is True and the
\* callback is run_downloads
DownloadBranch(round, deps_ok, cb) ==
    LET check == <<MenuEvent(round, "dependency_check", deps_ok)>>
        call == <<MenuEvent(round, "run_downloads", cb)>>
    IN  IF deps_ok = "raised"
        THEN [pc |-> "menu", log |-> check \o ReportedError(round)]
        ELSE IF deps_ok = "false"
        THEN [pc |-> "exit_dependencies_missing", log |-> check]
        ELSE IF cb = "raised"
        THEN [pc |-> "menu", log |-> check \o call \o ReportedError(round)]
        ELSE [pc |-> "menu",
              log |-> check \o call
                      \o <<MenuEvent(round, "wait_for_enter", "")>>]

\* main.py lines 51-68 for option 2: the callback is ensure_dependencies
InstallBranch(round, result) ==
    LET call == <<MenuEvent(round, "install_dependencies", result)>>
    IN  IF result = "raised"
        THEN [pc |-> "menu", log |-> call \o ReportedError(round)]
        ELSE IF result = "false"
        THEN [pc |-> "exit_not_installed", log |-> call]
        ELSE [pc |-> "menu",
              log |-> call \o <<MenuEvent(round, "wait_for_enter", "")>>]

\* main.py line 37: input(...).strip().lower()
MenuChoice(typed) == Lower(StripChars(typed, Whitespace))

MenuInit ==
    /\ menu_pc = "menu"
    /\ menu_round = 0
    /\ menu_log = <<>>

\* lines 40-43: no such option
MenuInvalid ==
    /\ menu_pc = "menu"
    /\ menu_round < MaxRounds
    /\ \E typed \in MenuInputs :
          MenuChoice(typed) \notin {<<"1">>, <<"2">>, <<"q">>}
    /\ menu_round' = menu_round + 1
    /\ menu_log' = menu_log \o
          <<MenuEvent(menu_round', "invalid_choice", ""),
            MenuEvent(menu_round', "wait_for_enter", "")>>
    /\ UNCHANGED menu_pc
    /\ UNCHANGED <<sanVars, promptVars, ledVars, engineVars, runVars, regVars>>

\* lines 47-49: "q"
MenuQuit ==
    /\ menu_pc = "menu"
    /\ menu_round < MaxRounds
    /\ \E typed \in MenuInputs : MenuChoice(typed) = <<"q">>
    /\ menu_round' = menu_round + 1
    /\ menu_log' = Append(menu_log, MenuEvent(menu_round', "goodbye", ""))
    /\ menu_pc' = "quit"
    /\ UNCHANGED <<sanVars, promptVars, ledVars, engineVars, runVars, regVars>>

\* lines 51-68 with choice "1"
MenuDownload ==
    /\ menu_pc = "menu"
    /\ menu_round < MaxRounds
    /\ \E typed \in MenuInputs : MenuChoice(typed) = <<"1">>
    /\ menu_round' = menu_round + 1
    /\ \E deps_ok \in DependencyOutcomes, cb \in CallbackOutcomes :
          LET branch == DownloadBranch(menu_round', deps_ok, cb)
          IN  /\ menu_log' = menu_log \o branch.log
              /\ menu_pc' = branch.pc
    /\ UNCHANGED <<sanVars, promptVars, ledVars, engineVars, runVars, regVars>>

\* lines 51-68 with choice "2"
MenuInstall ==
    /\ menu_pc = "menu"
    /\ menu_round < MaxRounds
    /\ \E typed \in MenuInputs : MenuChoice(typed) = <<"2">>
    /\ menu_round' = menu_round + 1
    /\ \E result \in DependencyOutcomes :
          LET branch == InstallBranch(menu_round', result)
          IN  /\ menu_log' = menu_log \o branch.log
              /\ menu_pc' = branch.pc
    /\ UNCHANGED <<sanVars, promptVars, ledVars, engineVars, runVars, regVars>>

MenuNext ==
    \/ MenuInvalid
    \/ MenuQuit
    \/ MenuDownload
    \/ MenuInstall

InitMenu ==
    /\ EngineIdle /\ RunIdle /\ RegIdle
    /\ SanIdle /\ PromptIdle /\ LedIdle /\ MenuInit

SpecMenu == InitMenu /\ [][MenuNext]_vars

MenuExited ==
    menu_pc \in {"quit", "exit_dependencies_missing", "exit_not_installed"}

\* C22: in the menu loop the downloads run only right after a dependency
\* check of the same round that returned true; a check that returns false
\* ends the application with no download started; an exception of an
\* action is reported and the menu comes back; the loop ends only on "q"
\* or on a dependency check or installation that failed.
C22_MenuLoop ==
    /\ \A i \in 1..Len(menu_log) :
          /\ menu_log[i].op = "run_downloads" =>
                /\ i > 1
                /\ menu_log[i - 1] =
                      MenuEvent(menu_log[i].round, "dependency_check", "true")
          /\ (menu_log[i].op \in {"dependency_check", "install_dependencies"}
                /\ menu_log[i].outcome = "false") =>
                /\ i = Len(menu_log)
                /\ MenuExited
          /\ menu_log[i].outcome = "raised" =>
                /\ i + 2 <= Len(menu_log)
                /\ menu_log[i + 1] =
                      MenuEvent(menu_log[i].round, "print_error", "")
                /\ menu_log[i + 2] =
                      MenuEvent(menu_log[i].round, "wait_for_enter", "")
                /\ (i + 2 = Len(menu_log)) => menu_pc = "menu"
    /\ MenuExited =>
          LET last == menu_log[Len(menu_log)]
          IN  \/ last.op = "goodbye"
              \/ /\ last.op \in {"dependency_check", "install_dependencies"}
                 /\ last.outcome = "false"
    /\ ~MenuExited => menu_pc = "menu"
    /\ menu_round <= MaxRounds

\* a download that raised in round 1, the menu again, and in round 2 a
\* dependency check that failed
C22_Witness ==
    /\ menu_pc = "exit_dependencies_missing"
    /\ menu_log =
          <<MenuEvent(1, "dependency_check", "true"),
            MenuEvent(1, "run_downloads", "raised"),
            MenuEvent(1, "print_error", ""),
            MenuEvent(1, "wait_for_enter", ""),
            MenuEvent(2, "dependency_check", "false")>>

====
